---- MODULE Spec2Model ----
(***************************************************************************)
(* Model of examples/embedding/python/xdl_wrapper.py: the ctypes bridge    *)
(* XdlContext (library lookup, binding, xdl_init / xdl_cleanup lifecycle,  *)
(* call_function marshalling) and the convenience functions sin/cos/sqrt.  *)
(*                                                                         *)
(* The native library is the environment: the entries one operation hands  *)
(* it are recorded in `last` and counted, and what it returns is an input  *)
(* of the action.                                                          *)
(***************************************************************************)
EXTENDS Integers, Sequences, FiniteSets, TLC

\* ---------------------------------------------------------------- bounds
MaxCtx == 2      \* XdlContext objects ever constructed
MaxDel == 1      \* explicit obj.__del__() calls per object
MaxArgs == 2     \* length of *args
MaxThreads == 2  \* threads that share one context
MaxOps == 1      \* operations each thread performs on the shared context

\* ------------------------------------------------------- python / C values
None == 0 - 1    \* Python None (self._context = None)
NULL == 0        \* the C null pointer xdl_init returns on failure
NonNumeric == 0 - 99   \* a Python value c_double cannot take (e.g. a str)
Doubles == {0, 1}
Values == Doubles \cup {NonNumeric}
NaN == 0 - 7           \* the double NaN, as xdl_call_function may return it
Results == {0, NaN}    \* what xdl_call_function returns: a number or NaN

\* restype = c_void_p: ctypes hands a NULL result to Python as None
c_void_p_restype(raw) == IF raw = NULL THEN None ELSE raw
\* argtypes c_void_p: ctypes passes None as NULL, an int as that address
c_void_p_argtype(v) == IF v = None THEN NULL ELSE v

\* ------------------------------------------------------------ environment
Systems == {"Darwin", "Linux", "Windows", "Java"}   \* platform.system()
LibNames == {"libxdl_ffi.dylib", "libxdl_ffi.so", "xdl_ffi.dll"}
Dirs == {"debug", "release", "cwd"}
\* the directory contents a construction can find: the build of one platform
\* (files called name), present in any of the three places (dirs)
FileSets == [dirs : SUBSET Dirs, name : LibNames]
NoFiles == [dirs |-> {}, name |-> ""]

NoName == ""
NoPath == [loc |-> "none", name |-> ""]      \* lib_path is None
ExplicitPaths == {[loc |-> "release", name |-> "libxdl_ffi.so"],
                  [loc |-> "debug", name |-> "xdl_ffi.dll"]}

\* str.lower() on the values platform.system() returns
lower(s) ==
  CASE s = "Darwin" -> "darwin"
    [] s = "Linux" -> "linux"
    [] s = "Windows" -> "windows"
    [] s = "Java" -> "java"
    [] OTHER -> s

\* the file a path names: "./name" and "name" both name a file of the cwd
resolve(path) ==
  [dir |-> IF path.loc \in {"dotslash", "bare"} THEN "cwd" ELSE path.loc,
   name |-> path.name]

\* os.path.exists(path)
exists(path, files) ==
  resolve(path).name = files.name /\ resolve(path).dir \in files.dirs

\* ------------------------------------------------------------- exceptions
NoErr == [cls |-> "", msg |-> "", system |-> "", tried |-> <<>>]
RuntimeError_Unsupported(system) ==
  [cls |-> "RuntimeError", msg |-> "Unsupported platform",
   system |-> system, tried |-> <<>>]
RuntimeError_NotFound(paths) ==
  [cls |-> "RuntimeError", msg |-> "Could not find XDL library",
   system |-> "", tried |-> paths]
XdlError == [cls |-> "XdlError", msg |-> "Failed to initialize XDL context",
             system |-> "", tried |-> <<>>]
OSError == [cls |-> "OSError", msg |-> "cannot load shared object",
            system |-> "", tried |-> <<>>]
AttributeError == [cls |-> "AttributeError", msg |-> "missing attribute",
                   system |-> "", tried |-> <<>>]
TypeError == [cls |-> "TypeError", msg |-> "float is required",
              system |-> "", tried |-> <<>>]

\* ------------------------------------------------------- _load_library
\* a lookup that falls back to the Linux name on an unknown platform
lib_name_fallback(system) ==
  CASE system = "darwin" -> "libxdl_ffi.dylib"
    [] system = "windows" -> "xdl_ffi.dll"
    [] OTHER -> "libxdl_ffi.so"

\* the if/elif chain of lines 38-45; NoName stands for the raise
lib_name(system) ==
  CASE system = "darwin" -> "libxdl_ffi.dylib"
    [] system = "linux" -> "libxdl_ffi.so"
    [] system = "windows" -> "xdl_ffi.dll"
    [] OTHER -> NoName

\* the candidate list with the release build ahead of the debug build
possible_paths_release_first(name) ==
  << [loc |-> "release", name |-> name],
     [loc |-> "debug", name |-> name],
     [loc |-> "dotslash", name |-> name],
     [loc |-> "bare", name |-> name] >>

possible_paths(name) ==
  << [loc |-> "debug", name |-> name],
     [loc |-> "release", name |-> name],
     [loc |-> "dotslash", name |-> name],
     [loc |-> "bare", name |-> name] >>

\* the loop without its break: the last existing candidate wins
RECURSIVE search_no_break(_, _, _)
search_no_break(paths, i, files) ==
  IF i > Len(paths)
    THEN [found |-> FALSE, path |-> NoPath, probed |-> paths]
    ELSE LET rest == search_no_break(paths, i + 1, files)
         IN IF rest.found \/ ~exists(paths[i], files)
              THEN rest
              ELSE [found |-> TRUE, path |-> paths[i], probed |-> paths]

\* a loop that falls back to the bare name instead of raising
RECURSIVE search_fallback_bare(_, _, _)
search_fallback_bare(paths, i, files) ==
  IF i > Len(paths)
    THEN [found |-> TRUE, path |-> paths[Len(paths)], probed |-> paths]
    ELSE IF exists(paths[i], files)
      THEN [found |-> TRUE, path |-> paths[i], probed |-> SubSeq(paths, 1, i)]
      ELSE search_fallback_bare(paths, i + 1, files)

\* the for/else loop of lines 55-60: probes in order, stops at the first hit
RECURSIVE search(_, _, _)
search(paths, i, files) ==
  IF i > Len(paths)
    THEN [found |-> FALSE, path |-> NoPath, probed |-> paths]
    ELSE IF exists(paths[i], files)
      THEN [found |-> TRUE, path |-> paths[i], probed |-> SubSeq(paths, 1, i)]
      ELSE search(paths, i + 1, files)

\* a locator that searches whatever path it is given
needs_search_always(lib_path) == TRUE

\* line 35: must the locator resolve the path itself?
needs_search(lib_path) == lib_path = NoPath

\* a load whose entry points are bound twice
load_and_bind_twice(r, path, outcome) ==
  [r EXCEPT !.loaded = path,
            !.err = CASE outcome = "ok" -> NoErr
                      [] outcome = "oserror" -> OSError
                      [] OTHER -> AttributeError,
            !.lib = IF outcome = "ok" THEN path ELSE NoPath,
            !.binds = IF outcome = "oserror" THEN 0 ELSE 2]

\* ctypes.CDLL(path) and the attribute lookups lib.xdl_init, ...:
\* outcome is what the loader does with the file ("ok", "oserror" when the
\* file cannot be loaded, "nosymbol" when an entry point is missing)
LoadOutcomes == {"ok", "oserror", "nosymbol"}
load_possible(path, files, outcome) ==
  exists(path, files) \/ outcome = "oserror"

load_and_bind(r, path, outcome) ==
  [r EXCEPT !.loaded = path,
            !.err = CASE outcome = "ok" -> NoErr
                      [] outcome = "oserror" -> OSError
                      [] OTHER -> AttributeError,
            !.lib = IF outcome = "ok" THEN path ELSE NoPath,
            !.binds = IF outcome = "oserror" THEN 0 ELSE 1]

LocBlank ==
  [given |-> NoPath, files |-> NoFiles, err |-> NoErr, lib |-> NoPath,
   platform_queried |-> FALSE,
   built |-> <<>>, probed |-> <<>>, loaded |-> NoPath, binds |-> 0]

_load_library(lib_path, sysraw, files, outcome) ==
  IF needs_search(lib_path)
    THEN LET system == lower(sysraw)
             name == lib_name(system)
             q == [LocBlank EXCEPT !.given = lib_path, !.files = files,
                                   !.platform_queried = TRUE]
         IN IF name = NoName
              THEN [q EXCEPT !.err = RuntimeError_Unsupported(system)]
              ELSE LET paths == possible_paths(name)
                       s == search(paths, 1, files)
                       b == [q EXCEPT !.built = paths, !.probed = s.probed]
                   IN IF s.found
                        THEN load_and_bind(b, s.path, outcome)
                        ELSE [b EXCEPT !.err = RuntimeError_NotFound(paths)]
    ELSE load_and_bind([LocBlank EXCEPT !.given = lib_path, !.files = files],
                       lib_path, outcome)

\* ------------------------------------------------------------- the object
\* an XdlContext instance: its attributes (has_lib / has_context say whether
\* the attribute was ever assigned; self.lib is the library object, which the
\* model does not look into), how often the program called __del__ on it
\* (dels), and the handle xdl_init returned to its constructor (got, which
\* the code does not keep: it is recorded for the properties)
Blank ==
  [st |-> "none", has_lib |-> FALSE, has_context |-> FALSE, _context |-> None,
   dels |-> 0, got |-> NULL]

\* native events
Ev(kind, c, h) ==
  [ev |-> kind, ctx |-> c, h |-> h, name |-> <<>>, null |-> TRUE,
   buf |-> <<>>, n |-> 0, out |-> 0]

\* _initialize without the check of line 78
_initialize_unchecked(raw) ==
  [_context |-> c_void_p_restype(raw), err |-> NoErr]

\* _initialize: raises XdlError when xdl_init returned NULL
_initialize(raw) ==
  [_context |-> c_void_p_restype(raw),
   err |-> IF c_void_p_restype(raw) = None THEN XdlError ELSE NoErr]

\* __init__ on object c: the object it leaves, what _load_library did, the
\* exception that leaves the constructor, the native entries invoked
__init__(c, lib_path, sysraw, files, outcome, raw) ==
  LET l == _load_library(lib_path, sysraw, files, outcome)
      o == [Blank EXCEPT !.st = "live"]
  IN IF l.err # NoErr
       THEN [obj |-> o, loc |-> l, err |-> l.err, events |-> << >>]
       ELSE LET i == _initialize(raw)
            IN [obj |-> [o EXCEPT !.has_lib = TRUE, !.has_context = TRUE,
                                  !._context = i._context, !.got = raw],
                loc |-> l, err |-> i.err,
                events |-> << Ev("init", c, raw) >>]

\* a guard that does not ask whether the attribute exists
hasattr_always(o) == TRUE

\* line 83, left operand: hasattr(self, '_context')
hasattr_context(o) == o.has_context

\* reading self._context: AttributeError when it was never assigned
getattr_context(o) ==
  IF o.has_context THEN [val |-> o._context, err |-> NoErr]
                   ELSE [val |-> None, err |-> AttributeError]

\* the guard without its None test
del_guard_any_value(o) == hasattr_context(o)

\* a finalizer that never releases
del_guard_never(o) == FALSE

\* __del__: the guard of line 83
del_guard(o) == hasattr_context(o) /\ getattr_context(o).val # None

\* line 83: `and` reads self._context only when hasattr answered True
del_error(o) ==
  IF hasattr_context(o) THEN getattr_context(o).err ELSE NoErr

\* __del__: the object after the finalizer body (line 84 assigns nothing)
del_object(o) == o

__del__(o, c) ==
  [obj |-> del_object(o),
   err |-> del_error(o),
   events |-> IF del_guard(o)
                THEN << Ev("cleanup", c, c_void_p_argtype(o._context)) >>
                ELSE << >>]

\* copy.copy(o): the class defines no __copy__, so the new instance is made
\* without __init__ and receives the attributes of o as they are (the same
\* library object, the same handle value); nothing was destroyed on it yet
copy_object(o) == [o EXCEPT !.dels = 0]

\* ---------------------------------------------------------- call_function
FnNames == {"sin", "cos", "sqrt"}    \* the convenience functions
CallNames == {"sin"}                 \* names given to call_function directly
\* name.encode('utf-8')
encode_utf8(name) ==
  CASE name = "sin" -> <<115, 105, 110>>
    [] name = "cos" -> <<99, 111, 115>>
    [] name = "sqrt" -> <<115, 113, 114, 116>>
    [] OTHER -> <<>>

\* *args: one list of numbers of each length (neighbours differ, so that a
\* change of order shows), and one list holding a non-number
NumberList(k) == [i \in 1..k |-> i % 2]
ArgLists == {NumberList(k) : k \in 0..MaxArgs} \cup {<<NonNumeric>>}

NoRet == [op |-> "", ctx |-> 0, args |-> <<>>, value |-> 0, err |-> NoErr]
Ret(op, c, value, err) ==
  [op |-> op, ctx |-> c, args |-> <<>>, value |-> value, err |-> err]

\* ctypes.c_double(v) of a Python number: the double of the same numeric
\* value (every number of Doubles is one a double holds exactly)
c_double(v) == v

\* marshalling that allocates a (possibly empty) array in every case
marshal_always_array(args) ==
  [null |-> FALSE, buf |-> [i \in 1..Len(args) |-> c_double(args[i])],
   n |-> Len(args)]

\* marshalling that fills the array from the end
marshal_reversed(args) ==
  IF Len(args) = 0
    THEN [null |-> TRUE, buf |-> << >>, n |-> 0]
    ELSE [null |-> FALSE,
          buf |-> [i \in 1..Len(args) |-> c_double(args[Len(args) + 1 - i])],
          n |-> Len(args)]

\* lines 96-101: c_args (None is passed as a null pointer) and nargs
marshal(args) ==
  IF Len(args) = 0
    THEN [null |-> TRUE, buf |-> << >>, n |-> 0]
    ELSE [null |-> FALSE, buf |-> [i \in 1..Len(args) |-> c_double(args[i])],
          n |-> Len(args)]

\* a call that is made again when the engine answers NaN
native_call_retry_nan(e) == IF e.out = NaN THEN << e, e >> ELSE << e >>

\* lines 104-107: the native entry is invoked once with the marshalled call
native_call(e) == << e >>

\* a result conversion that turns NaN into 0.0
py_float_no_nan(v) == IF v = NaN THEN 0 ELSE v

\* line 109: float(result); restype c_double already made the result a
\* Python float, which float() returns as it is, NaN included
py_float(v) == v

\* a call that passes no handle
call_handle_none(o) == c_void_p_argtype(None)

\* line 105: the handle argument, self._context through argtypes c_void_p
call_handle(o) == c_void_p_argtype(o._context)

\* call_function on object o (number c): the native entries invoked, in
\* order, and what the caller gets; result is what the engine returns
call_function(o, c, name, args, result) ==
  IF \E k \in 1..Len(args) : args[k] = NonNumeric
    THEN [events |-> <<>>,
          ret |-> [Ret("call", c, 0, TypeError) EXCEPT !.args = args]]
  ELSE IF ~o.has_lib \/ ~o.has_context
    THEN [events |-> <<>>,
          ret |-> [Ret("call", c, 0, AttributeError) EXCEPT !.args = args]]
  ELSE LET m == marshal(args)
           e == [ev |-> "call", ctx |-> c, h |-> call_handle(o),
                 name |-> encode_utf8(name), null |-> m.null,
                 buf |-> m.buf, n |-> m.n, out |-> result]
       IN [events |-> native_call(e),
           ret |-> [Ret("call", c, py_float(result), NoErr)
                      EXCEPT !.args = args]]

\* ------------------------------------------------------------------ state
VARIABLES
  system,      \* what platform.system() returns
  fs,          \* the library files that exist
  objs,        \* the XdlContext objects
  allocated,   \* handles xdl_init has handed out
  last,        \* native entries the last operation invoked, in order
  inits,       \* xdl_init invocations so far
  cleanups,    \* per handle value: xdl_cleanup invocations so far
  stale,       \* of the entries in last: xdl_call_function invocations on a
               \* handle that xdl_cleanup had already been invoked on
  loc,         \* what _load_library did in the last operation
  bound,       \* per library file: how often its entry points were bound
  ret,         \* outcome of the last Python-level operation
  threads      \* per thread: where it stands inside __del__ / call_function

vars ==
  <<system, fs, objs, allocated, last, inits, cleanups, stale, loc, bound, ret,
    threads>>

CtxIds == 1..MaxCtx
Threads == 1..MaxThreads
\* a thread outside any method of the context: pc is the line it is about to
\* run, ops the methods it has completed, out what xdl_call_function returned
\* to it, seen the number of xdl_cleanup invocations made on the handle when
\* it last evaluated the guard of __del__
Idle == [pc |-> "idle", ops |-> 0, out |-> 0, seen |-> 0]
\* the library files there can be
Artifacts == [dir : Dirs, name : LibNames]
Handles == 0..MaxCtx

Start ==
  /\ objs = [c \in CtxIds |-> Blank]
  /\ allocated = 0
  /\ last = <<>>
  /\ inits = 0
  /\ cleanups = [h \in Handles |-> 0]
  /\ stale = 0
  /\ loc = LocBlank
  /\ bound = [a \in Artifacts |-> 0]
  /\ ret = NoRet
  /\ threads = [t \in Threads |-> Idle]

\* the life of contexts: a supported platform with and without a build on
\* disk, and an unsupported platform
Init ==
  /\ \E e \in {<<"Linux", {}>>, <<"Linux", {"release"}>>,
                <<"Java", {"release"}>>} :
        /\ system = e[1]
        /\ fs = [dirs |-> e[2], name |-> "libxdl_ffi.so"]
  /\ Start

\* library lookup: every platform and every placement of a build
InitLocate ==
  /\ system \in Systems
  /\ fs \in FileSets
  /\ Start

Count(events, kind) == Cardinality({i \in 1..Len(events) : events[i].ev = kind})

\* the native library sees the entries of `events`, in order
RECURSIVE Deliver(_, _, _, _)
Deliver(events, i, cl, sl) ==
  IF i > Len(events) THEN [cleanups |-> cl, stale |-> sl]
  ELSE LET e == events[i]
       IN CASE e.ev = "cleanup" ->
                 Deliver(events, i + 1, [cl EXCEPT ![e.h] = @ + 1], sl)
            [] e.ev = "call" ->
                 Deliver(events, i + 1, cl,
                         IF cl[e.h] > 0 THEN sl + 1 ELSE sl)
            [] OTHER -> Deliver(events, i + 1, cl, sl)

Native(events) ==
  LET d == Deliver(events, 1, cleanups, 0)
  IN /\ last' = events
     /\ inits' = inits + Count(events, "init")
     /\ cleanups' = d.cleanups
     /\ stale' = d.stale

\* the next unused object slot
Fresh(c) ==
  /\ objs[c].st = "none"
  /\ \A d \in CtxIds : d < c => objs[d].st # "none"

\* what the loader and xdl_init can answer for this construction
Feasible(k, outcome, raw) ==
  /\ k.loc.loaded # NoPath => load_possible(k.loc.loaded, fs, outcome)
  /\ k.loc.loaded = NoPath => outcome = "ok"
  /\ k.events = << >> => raw = NULL

\* lines 65-71 ran on the library object that line 62 made of file l.loaded
Bind(l) ==
  bound' = IF l.binds > 0
             THEN [bound EXCEPT ![resolve(l.loaded)] = @ + l.binds]
             ELSE bound

Allocate(raw) ==
  allocated' = IF raw # NULL THEN allocated + 1 ELSE allocated

\* ctx = XdlContext(lib_path)
Construct(c) ==
  /\ Fresh(c)
  /\ \E lib_path \in ExplicitPaths \cup {NoPath},
        outcome \in LoadOutcomes, raw \in {NULL, allocated + 1} :
     \E k \in {__init__(c, lib_path, system, fs, outcome, raw)} :
        /\ Feasible(k, outcome, raw)
        /\ loc' = k.loc
        /\ Bind(k.loc)
        /\ objs' = [objs EXCEPT ![c] = k.obj]
        /\ Native(k.events)
        /\ Allocate(raw)
        /\ ret' = Ret("new", c, 0, k.err)
  /\ UNCHANGED <<system, fs, threads>>

\* obj.__del__() called by the program on an object it still reaches
ExplicitDel(c) ==
  /\ objs[c].st = "live"
  /\ objs[c].dels < MaxDel
  /\ \E d \in {__del__(objs[c], c)} :
        /\ objs' = [objs EXCEPT ![c] = [d.obj EXCEPT !.dels = @ + 1]]
        /\ Native(d.events)
        /\ ret' = Ret("del", c, 0, d.err)
  /\ loc' = LocBlank
  /\ UNCHANGED <<system, fs, allocated, bound, threads>>

\* the last reference is dropped: the interpreter runs __del__ (once)
Finalize(c) ==
  /\ objs[c].st = "live"
  /\ \E d \in {__del__(objs[c], c)} :
        /\ objs' = [objs EXCEPT ![c] = [d.obj EXCEPT !.st = "collected"]]
        /\ Native(d.events)
        /\ ret' = Ret("gc", c, 0, d.err)
  /\ loc' = LocBlank
  /\ UNCHANGED <<system, fs, allocated, bound, threads>>

\* obj.call_function(name, *args)
CallFunction(c) ==
  /\ objs[c].st = "live"
  /\ \E name \in CallNames, args \in ArgLists, result \in Results :
     \E r \in {call_function(objs[c], c, name, args, result)} :
        /\ r.events = <<>> => result = 0
        /\ Native(r.events)
        /\ ret' = r.ret
  /\ loc' = LocBlank
  /\ UNCHANGED <<system, fs, objs, allocated, bound, threads>>

\* sin(x) / cos(x) / sqrt(x): a throwaway context, one call; when the
\* function returns, its local ctx is the last reference and is finalized
Convenience(c, name) ==
  /\ Fresh(c)
  /\ \E x \in Values, outcome \in LoadOutcomes,
        raw \in {NULL, allocated + 1}, result \in Results :
     \E k \in {__init__(c, NoPath, system, fs, outcome, raw)} :
        /\ Feasible(k, outcome, raw)
        /\ loc' = k.loc
        /\ Bind(k.loc)
        /\ Allocate(raw)
        /\ IF k.err # NoErr
             THEN \* the constructor raised: nothing is called
                  /\ result = 0
                  /\ objs' = [objs EXCEPT ![c] = k.obj]
                  /\ Native(k.events)
                  /\ ret' = Ret(name, c, 0, k.err)
             ELSE \E r \in {call_function(k.obj, c, name, <<x>>, result)},
                     d \in {__del__(k.obj, c)} :
                     /\ r.events = <<>> => result = 0
                     /\ ret' = [r.ret EXCEPT !.op = name]
                     /\ IF r.ret.err # NoErr
                          THEN \* the traceback keeps the frame, and ctx
                               /\ objs' = [objs EXCEPT ![c] = k.obj]
                               /\ Native(k.events \o r.events)
                          ELSE /\ objs' = [objs EXCEPT ![c] =
                                     [d.obj EXCEPT !.st = "collected"]]
                               /\ Native(k.events \o r.events \o d.events)
  /\ UNCHANGED <<system, fs, threads>>

\* d = copy.copy(c) on an object the program still reaches
Copy(c, d) ==
  /\ objs[c].st = "live"
  /\ Fresh(d)
  /\ objs' = [objs EXCEPT ![d] = copy_object(objs[c])]
  /\ Native(<< >>)
  /\ ret' = Ret("copy", d, 0, NoErr)
  /\ loc' = LocBlank
  /\ UNCHANGED <<system, fs, allocated, bound, threads>>

Next ==
  \/ \E c \in CtxIds : Construct(c)
  \/ \E c \in CtxIds : ExplicitDel(c)
  \/ \E c \in CtxIds : Finalize(c)
  \/ \E c \in CtxIds : CallFunction(c)
  \/ \E c \in CtxIds, name \in FnNames : Convenience(c, name)
  \/ \E c \in CtxIds, d \in CtxIds : Copy(c, d)

Spec == Init /\ [][Next]_vars

\* the constructor alone, in every environment
NextLocate == \E c \in CtxIds : Construct(c)

SpecLocate == InitLocate /\ [][NextLocate]_vars

\* ------------------------------------------------- one context, two threads
\* the context the threads share
Shared == 1
\* thread t is outside any method and may start one on the shared context,
\* which was constructed with a handle and is reachable from every thread
MayStart(t) ==
  /\ threads[t].pc = "idle" /\ threads[t].ops < MaxOps
  /\ objs[Shared].st = "live" /\ objs[Shared].got # NULL

\* the *args every thread passes: one number
ThreadArgs == {NumberList(1)}

\* what a thread must hold before it runs line 84 or lines 104-107: the code
\* takes no lock, so nothing
acquired_exclusive(t, ths) ==
  \A u \in DOMAIN ths : u # t => ths[u].pc \notin {"84", "109"}

acquired(t, ths) == TRUE

\* thread t calls ctx.__del__() and evaluates the guard of line 83
DelGuard(t) ==
  /\ MayStart(t)
  /\ IF del_error(objs[Shared]) = NoErr /\ del_guard(objs[Shared])
       THEN /\ threads' = [threads EXCEPT ![t] =
                 [@ EXCEPT !.pc = "84", !.seen = cleanups[objs[Shared].got]]]
            /\ UNCHANGED <<objs, ret>>
       ELSE /\ threads' = [threads EXCEPT ![t] = [@ EXCEPT !.ops = @ + 1]]
            /\ objs' = [objs EXCEPT ![Shared] =
                          [del_object(objs[Shared]) EXCEPT !.dels = @ + 1]]
            /\ ret' = Ret("del", Shared, 0, del_error(objs[Shared]))
  /\ Native(<< >>)
  /\ UNCHANGED <<system, fs, allocated, loc, bound>>

\* thread t runs line 84: it reads self._context again and invokes
\* xdl_cleanup; the interpreter lock is released during the foreign call
DelCleanup(t) ==
  /\ threads[t].pc = "84"
  /\ acquired(t, threads)
  /\ Native(<< Ev("cleanup", Shared,
                  c_void_p_argtype(getattr_context(objs[Shared]).val)) >>)
  /\ objs' = [objs EXCEPT ![Shared] =
                [del_object(objs[Shared]) EXCEPT !.dels = @ + 1]]
  /\ threads' = [threads EXCEPT ![t] =
                   [@ EXCEPT !.pc = "idle", !.ops = @ + 1]]
  /\ ret' = Ret("del", Shared, 0, NoErr)
  /\ UNCHANGED <<system, fs, allocated, loc, bound>>

\* thread t calls ctx.call_function(name, *args) and runs lines 96-103
CallMarshal(t) ==
  /\ MayStart(t)
  /\ \E name \in CallNames, args \in ThreadArgs :
     \E r \in {call_function(objs[Shared], Shared, name, args, 0)} :
        IF r.ret.err # NoErr
          THEN /\ threads' = [threads EXCEPT ![t] = [@ EXCEPT !.ops = @ + 1]]
               /\ ret' = r.ret
          ELSE /\ threads' = [threads EXCEPT ![t] = [@ EXCEPT !.pc = "104"]]
               /\ ret' = ret
  /\ Native(<< >>)
  /\ UNCHANGED <<system, fs, objs, allocated, loc, bound>>

\* thread t runs lines 104-107: it reads self._context and invokes
\* xdl_call_function; the interpreter lock is released during the foreign call
CallInvoke(t) ==
  /\ threads[t].pc = "104"
  /\ acquired(t, threads)
  /\ \E name \in CallNames, args \in ThreadArgs, result \in Results :
     \E r \in {call_function(objs[Shared], Shared, name, args, result)} :
        /\ Native(r.events)
        /\ threads' = [threads EXCEPT ![t] =
                         [@ EXCEPT !.pc = "109", !.out = result]]
  /\ UNCHANGED <<system, fs, objs, allocated, loc, bound, ret>>

\* thread t runs line 109 and returns
CallReturn(t) ==
  /\ threads[t].pc = "109"
  /\ threads' = [threads EXCEPT ![t] =
                   [@ EXCEPT !.pc = "idle", !.ops = @ + 1, !.out = 0]]
  /\ \E args \in ThreadArgs :
       ret' = [Ret("call", Shared, py_float(threads[t].out), NoErr)
                 EXCEPT !.args = args]
  /\ Native(<< >>)
  /\ UNCHANGED <<system, fs, objs, allocated, loc, bound>>

\* a build on disk, on a supported platform
InitThreads ==
  /\ system = "Linux"
  /\ fs = [dirs |-> {"release"}, name |-> "libxdl_ffi.so"]
  /\ Start

NextThreads ==
  \/ Construct(Shared)
  \/ \E t \in Threads : DelGuard(t)
  \/ \E t \in Threads : DelCleanup(t)
  \/ \E t \in Threads : CallMarshal(t)
  \/ \E t \in Threads : CallInvoke(t)
  \/ \E t \in Threads : CallReturn(t)

SpecThreads == InitThreads /\ [][NextThreads]_vars

\* ============================================================ properties
\* xdl_init succeeded for object c (it reached Active)
InitSucceeded(c) == objs[c].st # "none" /\ objs[c].got # NULL
\* xdl_init was called for object c and returned NULL
InitFailed(c) ==
  objs[c].st # "none" /\ objs[c].has_context /\ objs[c].got = NULL
\* how often __del__ has run on object c, by hand or by the interpreter
Destructions(c) ==
  objs[c].dels + (IF objs[c].st = "collected" THEN 1 ELSE 0)
\* the native entries of kind `kind` that the last operation made for c
LastEvents(c, kind) ==
  {i \in 1..Len(last) : last[i].ev = kind /\ last[i].ctx = c}

\* C1: once a context that reached Active has been destroyed two or more
\* times, xdl_cleanup has been invoked exactly once for its handle.
C1_CleanupExactlyOnce ==
  \A c \in CtxIds :
    (InitSucceeded(c) /\ Destructions(c) >= 2) => cleanups[objs[c].got] = 1

\* C2: no xdl_call_function is made on a handle after xdl_cleanup was made on
\* it, and a call_function on a context whose cleanup has run raises.
C2_NoCallAfterCleanup ==
  /\ stale = 0
  /\ \A c \in CtxIds :
       (ret.op = "call" /\ ret.ctx = c /\ InitSucceeded(c)
          /\ cleanups[objs[c].got] > 0)
       => (ret.err # NoErr /\ LastEvents(c, "call") = {})

\* C3: a context whose init succeeded and whose scope has ended (its last
\* reference is gone) has had xdl_cleanup invoked exactly once on its handle.
C3_ReleasedExactlyOnceAtScopeEnd ==
  \A c \in CtxIds :
    (InitSucceeded(c) /\ objs[c].st = "collected")
      => cleanups[objs[c].got] = 1

\* C4: a context whose xdl_init returned NULL holds no handle, and however
\* often it is destroyed xdl_cleanup is never invoked for it.
C4_FailedInitNeverCleaned ==
  \A c \in CtxIds :
    InitFailed(c) =>
      /\ objs[c]._context = None
      /\ LastEvents(c, "cleanup") = {}
      /\ cleanups[NULL] = 0

C4_Witness ==
  \E c \in CtxIds : InitFailed(c) /\ Destructions(c) >= 2

\* C5: when xdl_init returns NULL the constructor raises XdlError, and a
\* constructor that returns normally leaves a non-null handle in the context.
C5_NullInitRaises ==
  \A c \in CtxIds :
    /\ (\E i \in LastEvents(c, "init") : last[i].h = NULL)
         => ret.err = XdlError
    /\ (ret.op = "new" /\ ret.ctx = c /\ ret.err = NoErr)
         => (objs[c].has_context /\ objs[c]._context # None
               /\ objs[c].got # NULL)

C5_Witness ==
  /\ ret.op = "new" /\ ret.err = XdlError
  /\ \E i \in LastEvents(ret.ctx, "init") : last[i].h = NULL

\* C6: after a destruction of a context that reached Active, the stored
\* handle (_context) is cleared.
C6_HandleClearedAfterCleanup ==
  \A c \in CtxIds :
    (InitSucceeded(c) /\ Destructions(c) >= 1) => objs[c]._context = None

\* --------------------------------------------------------- library lookup
\* the last operation was XdlContext() without / with an explicit path
SearchedConstruct == ret.op = "new" /\ loc.given = NoPath
ExplicitConstruct == ret.op = "new" /\ loc.given # NoPath

Recognised == {"Darwin", "Linux", "Windows"}
ExpectedName ==
  CASE system = "Darwin" -> "libxdl_ffi.dylib"
    [] system = "Linux" -> "libxdl_ffi.so"
    [] system = "Windows" -> "xdl_ffi.dll"
    [] OTHER -> "?"
\* the documented candidates: debug, release, current directory, bare name
Candidates ==
  << [loc |-> "debug", name |-> ExpectedName],
     [loc |-> "release", name |-> ExpectedName],
     [loc |-> "dotslash", name |-> ExpectedName],
     [loc |-> "bare", name |-> ExpectedName] >>
Existing == {i \in 1..4 : exists(Candidates[i], fs)}
NothingLoaded == loc.loaded = NoPath /\ loc.binds = 0 /\ last = << >>

\* C7: without an explicit path, an unrecognised platform fails with the
\* unsupported-platform error before any candidate is built or probed and
\* nothing is loaded, bound or initialised; on a recognised platform every
\* candidate carries that platform's fixed file name.
C7_PlatformMapping ==
  SearchedConstruct =>
    IF system \in Recognised
      THEN /\ Len(loc.built) = 4
           /\ \A i \in 1..4 : loc.built[i].name = ExpectedName
      ELSE /\ ret.err.cls = "RuntimeError"
           /\ ret.err.msg = "Unsupported platform"
           /\ loc.built = << >> /\ loc.probed = << >>
           /\ NothingLoaded

C7_Witness ==
  /\ SearchedConstruct /\ system \notin Recognised
  /\ ret.err.msg = "Unsupported platform"

\* C8: without an explicit path, when none of the four candidates exists the
\* constructor fails with the not-found error that lists the four paths in the
\* order debug, release, current directory, bare name; nothing is loaded.
C8_NotFoundListsAll ==
  (SearchedConstruct /\ system \in Recognised /\ Existing = {}) =>
    /\ ret.err.cls = "RuntimeError"
    /\ ret.err.msg = "Could not find XDL library"
    /\ ret.err.tried = Candidates
    /\ NothingLoaded

C8_Witness ==
  /\ SearchedConstruct /\ system \in Recognised /\ Existing = {}
  /\ Len(ret.err.tried) = 4

\* C9: without an explicit path, the path handed to the loader is the
\* existing candidate that comes first in the order debug, release, current
\* directory, bare name.
C9_FirstExistingWins ==
  (SearchedConstruct /\ system \in Recognised /\ Existing # {}) =>
    \E i \in Existing :
      /\ \A j \in Existing : i <= j
      /\ loc.loaded = Candidates[i]

C9_Witness ==
  /\ SearchedConstruct /\ system \in Recognised
  /\ {1, 2} \subseteq Existing
  /\ loc.loaded.loc = "debug"

\* C10: an explicit path is handed to the loader as it is: the platform is
\* not queried, no candidate is built or probed, neither lookup error arises,
\* and a path that does not exist is reported by the loader (OSError).
C10_ExplicitPathUsedAsIs ==
  ExplicitConstruct =>
    /\ loc.loaded = loc.given
    /\ ~loc.platform_queried
    /\ loc.built = << >> /\ loc.probed = << >>
    /\ ret.err.cls # "RuntimeError"
    /\ ~exists(loc.given, fs) => ret.err = OSError

C10_Witness ==
  /\ ExplicitConstruct /\ system \notin Recognised
  /\ ~exists(loc.given, fs) /\ ret.err = OSError

\* ---------------------------------------------------------- function calls
\* context c is Active: constructed with a handle, reachable, not cleaned up
Active(c) ==
  objs[c].st = "live" /\ InitSucceeded(c) /\ cleanups[objs[c].got] = 0
\* the last operation was obj.call_function(...) on an Active context
ActiveCall == ret.op = "call" /\ Active(ret.ctx)
\* the xdl_call_function invocations of the last operation
CallEvents == {i \in 1..Len(last) : last[i].ev = "call"}
Numeric(args) == \A k \in 1..Len(args) : args[k] \in Doubles

\* C11: a call on an Active context with no arguments invokes
\* xdl_call_function with a null argument pointer and count 0.
C11_EmptyArgsNullPointer ==
  (ActiveCall /\ ret.args = << >>) =>
    /\ CallEvents # {}
    /\ \A i \in CallEvents :
         last[i].null /\ last[i].n = 0 /\ last[i].buf = << >>

C11_Witness ==
  /\ ActiveCall /\ ret.args = << >>
  /\ \E i \in CallEvents : last[i].null /\ last[i].n = 0

\* C12: a call on an Active context with n > 0 numbers passes a non-null
\* buffer holding those n values in the given order and the count n; in every
\* native call the pointer is null exactly when the count is 0.
C12_ArgsMarshalledInOrder ==
  /\ (ActiveCall /\ Numeric(ret.args) /\ Len(ret.args) > 0) =>
       /\ CallEvents # {}
       /\ \A i \in CallEvents :
            /\ ~last[i].null
            /\ last[i].buf = ret.args
            /\ last[i].n = Len(ret.args)
  /\ \A i \in CallEvents : last[i].null <=> (last[i].n = 0)

C12_Witness ==
  /\ ActiveCall /\ Len(ret.args) = 2 /\ ret.args[1] # ret.args[2]
  /\ \E i \in CallEvents : last[i].buf = ret.args

\* C13: a call_function with numeric arguments on an Active context invokes
\* xdl_call_function exactly once, whatever it returns (NaN included).
C13_OneNativeCallPerInvocation ==
  (ActiveCall /\ Numeric(ret.args)) =>
    (Cardinality(CallEvents) = 1 /\ Len(last) = 1)

C13_Witness ==
  /\ ActiveCall /\ Cardinality(CallEvents) = 1
  /\ \E i \in CallEvents : last[i].out = NaN

\* C14: the value call_function returns is the value xdl_call_function
\* returned for that invocation, and it is not turned into an error.
C14_ResultPassedThrough ==
  (ret.op \in {"call"} \cup FnNames /\ CallEvents # {}) =>
    /\ ret.err = NoErr
    /\ \A i \in CallEvents : ret.value = last[i].out

C14_Witness ==
  /\ ActiveCall /\ ret.value = NaN
  /\ \E i \in CallEvents : last[i].out = NaN

\* ---------------------------------------------------- convenience functions
\* the last operation was sin(x), cos(x) or sqrt(x)
ConvenienceCall == ret.op \in FnNames
\* the native entries of the last operation, by kind, in order
Kinds(events) == [i \in 1..Len(events) |-> events[i].ev]
\* no other object was given the handle of object c
OwnHandle(c) ==
  \A d \in CtxIds \ {c} : objs[d].st # "none" => objs[d].got # objs[c].got

\* C15 as stated: every convenience invocation makes one xdl_init, one
\* xdl_call_function and one xdl_cleanup, on a handle no other context holds.
C15_EveryInvocationInitCallCleanup ==
  ConvenienceCall =>
    /\ Count(last, "init") = 1
    /\ Count(last, "call") = 1
    /\ Count(last, "cleanup") = 1
    /\ OwnHandle(ret.ctx)

\* C15, amended: every convenience invocation that returns a value has made
\* one xdl_init, then one xdl_call_function, then one xdl_cleanup, all on the
\* handle its own xdl_init returned, which no other context holds; an
\* invocation that raises has made no xdl_call_function.
C15_ReturningInvocationInitCallCleanup ==
  /\ (ConvenienceCall /\ ret.err = NoErr) =>
       /\ Kinds(last) = << "init", "call", "cleanup" >>
       /\ \A i \in 1..Len(last) :
            last[i].ctx = ret.ctx /\ last[i].h = objs[ret.ctx].got
       /\ objs[ret.ctx].st = "collected"
       /\ cleanups[objs[ret.ctx].got] = 1
       /\ OwnHandle(ret.ctx)
  /\ (ConvenienceCall /\ ret.err # NoErr) => Count(last, "call") = 0

C15_Witness ==
  /\ ConvenienceCall /\ ret.err = NoErr /\ ret.ctx = 2
  /\ Kinds(last) = << "init", "call", "cleanup" >>
  /\ objs[1].st = "collected" /\ InitSucceeded(1)

\* ------------------------------------------------------------------ copying
\* object c holds a native handle
HoldsHandle(c) ==
  objs[c].st = "live" /\ objs[c].has_context /\ objs[c]._context # None

\* C16: no two live contexts hold the same native handle.
C16_NoTwoOwnersOfOneHandle ==
  \A c \in CtxIds : \A d \in CtxIds \ {c} :
    (HoldsHandle(c) /\ HoldsHandle(d)) => objs[c]._context # objs[d]._context

\* ---------------------------------------------------- construction failures
\* the last operation ran the constructor: XdlContext(...) or sin/cos/sqrt
ConstructingOp == ret.op \in {"new"} \cup FnNames
\* the last operation raised and did nothing else: no value, no second
\* xdl_init, no xdl_call_function, no xdl_cleanup
RaisedOnly ==
  /\ ret.err # NoErr /\ ret.value = 0
  /\ Count(last, "init") <= 1
  /\ Count(last, "call") = 0 /\ Count(last, "cleanup") = 0

\* C17: a constructor or convenience function whose construction fails
\* (platform not supported, no candidate on disk, xdl_init returned NULL)
\* raises the matching error to its caller, returns no value, does not run
\* the construction again and makes no xdl_call_function.
C17_ConstructionFailureSurfaces ==
  /\ (ConstructingOp /\ loc.given = NoPath /\ system \notin Recognised) =>
       /\ ret.err.cls = "RuntimeError" /\ ret.err.msg = "Unsupported platform"
       /\ RaisedOnly /\ last = << >>
  /\ (ConstructingOp /\ loc.given = NoPath /\ system \in Recognised
        /\ Existing = {}) =>
       /\ ret.err.cls = "RuntimeError"
       /\ ret.err.msg = "Could not find XDL library"
       /\ RaisedOnly /\ last = << >>
  /\ (ConstructingOp /\ InitFailed(ret.ctx)) =>
       /\ ret.err = XdlError
       /\ RaisedOnly /\ Kinds(last) = << "init" >>

C17_Witness ==
  /\ ret.op \in FnNames /\ loc.given = NoPath
  /\ system \in Recognised /\ Existing = {}
  /\ ret.err.msg = "Could not find XDL library"
  /\ last = << >> /\ inits = 0

\* ------------------------------------------------------------------ binding
\* C18 as stated: the entry points of one library file are bound at most once,
\* however many contexts are constructed on it.
C18_BoundOncePerArtifact ==
  \A a \in Artifacts : bound[a] <= 1

\* the last operation ran the constructor and ctypes.CDLL loaded file a
Loaded(a) ==
  /\ ConstructingOp
  /\ loc.loaded # NoPath /\ loc.err # OSError
  /\ resolve(loc.loaded) = a

\* C18, amended: the entry points are bound exactly once per load: every
\* operation whose constructor loads a library file binds that file's entry
\* points once more, and no other operation binds anything.
C18_BoundOncePerLoad ==
  [][bound' = IF \E a \in Artifacts : Loaded(a)'
                THEN [bound EXCEPT ![resolve(loc'.loaded)] = @ + 1]
                ELSE bound]_vars

C18_Witness ==
  /\ \E a \in Artifacts : bound[a] = 2 /\ Loaded(a)
  /\ \A c \in CtxIds : objs[c].has_lib

\* ------------------------------------------------- partial construction
\* C19: when _load_library raises (path resolution, loading or binding
\* failed) xdl_init is not invoked and the object is left without a handle
\* attribute; __del__ on an object whose _context was never assigned invokes
\* no native entry and raises nothing.
C19_PartialConstructionInert ==
  /\ (ConstructingOp /\ loc.err # NoErr) =>
       /\ last = << >>
       /\ ret.err = loc.err
       /\ ~objs[ret.ctx].has_context /\ objs[ret.ctx]._context = None
       /\ objs[ret.ctx].got = NULL
  /\ (ret.op \in {"del", "gc"} /\ ~objs[ret.ctx].has_context) =>
       (last = << >> /\ ret.err = NoErr)

C19_Witness ==
  /\ ret.op = "gc" /\ ~objs[ret.ctx].has_context
  /\ objs[ret.ctx].st = "collected" /\ objs[ret.ctx].dels = 1
  /\ last = << >> /\ ret.err = NoErr

\* ----------------------------------------------------------- handle passing
\* C20: every xdl_call_function and xdl_cleanup made through a context
\* receives the handle value that context's xdl_init returned, and a
\* call_function leaves every attribute of the context as it was.
C20_HandlePassedUnchanged ==
  [][/\ \A i \in 1..Len(last') :
          last'[i].ev \in {"call", "cleanup"} =>
            last'[i].h = objs'[last'[i].ctx].got
     /\ ret'.op = "call" => objs' = objs]_vars

C20_Witness ==
  /\ ActiveCall /\ objs[ret.ctx].got # NULL
  /\ objs[ret.ctx]._context = objs[ret.ctx].got
  /\ \E i \in CallEvents : last[i].h = objs[ret.ctx].got

\* ---------------------------------------------------------------- threads
\* C21: nothing in the bridge serialises threads that share one Active
\* context. A thread that has passed the guard of __del__, or has marshalled
\* its call, is never made to wait for another thread; the stored handle stays
\* what xdl_init returned, so every __del__ that a thread completes invokes
\* xdl_cleanup on it (as many cleanups as destructions) and every call is
\* made on it, also after xdl_cleanup was (a call on a cleaned-up handle).
C21_NoInternalLocking ==
  /\ \A t \in Threads :
       /\ threads[t].pc = "84" => ENABLED DelCleanup(t)
       /\ threads[t].pc = "104" => ENABLED CallInvoke(t)
  /\ objs[Shared].got # NULL =>
       /\ objs[Shared]._context = objs[Shared].got
       /\ cleanups[objs[Shared].got] = objs[Shared].dels
  /\ \A i \in CallEvents :
       /\ last[i].h = objs[Shared].got
       /\ stale > 0 <=> cleanups[last[i].h] > 0

\* two threads both evaluated the guard before either invoked xdl_cleanup,
\* and xdl_cleanup has now been invoked twice on the one handle
C21_Witness ==
  /\ objs[Shared].got # NULL /\ cleanups[objs[Shared].got] = 2
  /\ \E t \in Threads : \E u \in Threads \ {t} :
       /\ threads[t].ops = 1 /\ threads[t].seen = 0
       /\ threads[u].ops = 1 /\ threads[u].seen = 0
       /\ threads[t].pc = "idle" /\ threads[u].pc = "idle"

====
